---- MODULE Spec2Model ----
(***************************************************************************)
(* Model of the Playwright image downloader: configuration validation,     *)
(* the file-system probe and save, the size selector, the per-entry        *)
(* download state machine (sequential and bounded-concurrency), and the    *)
(* run that wraps them and writes the local manifest.                      *)
(*                                                                         *)
(* Optional values (a key of the option bag that may be absent) are        *)
(* sequences of length at most one: << >> is "undefined", <<v>> is v.      *)
(* Arrays are 0-based, as in the source.                                   *)
(***************************************************************************)
EXTENDS Integers, Sequences, FiniteSets, TLC

(* ------------------------------ bounds --------------------------------- *)
\* most manifest entries of a run
MaxEntries == 2
\* largest retry count drawn for the options
MaxRetries == 1
\* byte size of a transferred file that is not empty
NonEmptySize == 2048
\* longest list of results given to the summary
MaxSummaryLen == 4
\* a retry count with a third backoff, explored in sequential mode
DeepRetries == 4
\* most attemptLogin calls made on one authentication service
MaxLoginCalls == 4
\* most manifest files present around the working directory
MaxManifestFiles == 2

(* ------------------------- program constants --------------------------- *)
DefaultTimeout == 30000
DefaultRetries == 3
DefaultConcurrency == 3
FallbackConcurrency == 3
MaxConcurrency == 10
SimulatedSize == 1048576
BackoffStep == 2000
LargeWidth == 2400
MediumWidth == 1920
SmallWidth == 640

Undefined == << >>
Given(o) == Len(o) = 1
Truthy(n) == n # 0

(* manifest entries: Object.entries(manifest.images), keys are distinct *)
AllPhotoIds == << "p0", "p1", "p2", "p3", "p4", "p5" >>
PhotoIdAt(i) == AllPhotoIds[i + 1]
EntryIndexes == 0 .. (MaxEntries - 1)
PhotoIds == { PhotoIdAt(i) : i \in EntryIndexes }

(* ----------------------------- Config ---------------------------------- *)
\* { ...defaults, ...options }: a key given in options overrides the default
MergeDefault(o, d) == IF Given(o) THEN o[1] ELSE d

validateAndSetDefaults(options) ==
    [ timeout           |-> MergeDefault(options.timeout, DefaultTimeout),
      retries           |-> MergeDefault(options.retries, DefaultRetries),
      concurrency       |-> MergeDefault(options.concurrency, DefaultConcurrency),
      enableConcurrency |-> options.enableConcurrency,
      dryRun            |-> options.dryRun,
      downloadDir       |-> options.downloadDir ]

\* the upper limit of the concurrency check
ConcurrencyTooLarge_NoCap(c) == FALSE
ConcurrencyTooLarge(c) == c > MaxConcurrency

\* "ok", or the message of the Error that validateConfig throws
validateConfig(config) ==
    IF Truthy(config.timeout) /\ config.timeout <= 0
      THEN "Timeout must be a positive number"
    ELSE IF Truthy(config.retries) /\ config.retries < 0
      THEN "Retries must be a non-negative number"
    ELSE IF Truthy(config.concurrency)
            /\ (config.concurrency <= 0 \/ ConcurrencyTooLarge(config.concurrency))
      THEN "Concurrency must be a positive number between 1 and 10"
    ELSE "ok"

(* ------------------------- FileSystemService --------------------------- *)
Absent == 0 - 1
possibleExtensions == << ".jpg", ".jpeg", ".png", ".webp" >>
Extensions == { ".jpg", ".jpeg", ".png", ".webp", ".gif" }
EmptyFolder == [ e \in Extensions |-> Absent ]

\* index of the first extension, from position k on, under which a file exists
RECURSIVE FirstExisting(_, _)
FirstExisting(files, k) ==
    IF k > Len(possibleExtensions) THEN 0
    ELSE IF files[possibleExtensions[k]] # Absent THEN k
    ELSE FirstExisting(files, k + 1)

\* imageExists(photoId) on a configured download directory; files = the files
\* of the directory named by photoId, by extension
imageExists_JpgOnly(files) ==
    IF files[".jpg"] # Absent
      THEN [ exists |-> TRUE, ext |-> ".jpg", size |-> files[".jpg"] ]
      ELSE [ exists |-> FALSE, ext |-> "", size |-> 0 ]
imageExists(files) ==
    LET k == FirstExisting(files, 1) IN
    IF k # 0
      THEN [ exists |-> TRUE, ext |-> possibleExtensions[k],
             size |-> files[possibleExtensions[k]] ]
      ELSE [ exists |-> FALSE, ext |-> "", size |-> 0 ]

\* path.extname(suggestedFilename) || ".jpg"
SavedExtension(suggestedExt) == IF suggestedExt = "" THEN ".jpg" ELSE suggestedExt

\* the check after download.saveAs: does saveDownload throw "Downloaded file is empty"
SavedFileRejected_NoCheck(size) == FALSE
SavedFileRejected(size) == size = 0

(* ---------------------------- size selector ---------------------------- *)
sizeOrder == << "original", "large", "medium", "small" >>
\* getSizeMap: the width ceiling of a tier; null is << >>
getSizeMap(size) ==
    CASE size = "small"  -> << SmallWidth >>
      [] size = "medium" -> << MediumWidth >>
      [] size = "large"  -> << LargeWidth >>
      [] OTHER           -> Undefined

indexOf(size) ==
    IF \E k \in 1 .. Len(sizeOrder) : sizeOrder[k] = size
      THEN (CHOOSE k \in 1 .. Len(sizeOrder) : sizeOrder[k] = size) - 1
      ELSE 0 - 1

\* a number in a condition: undefined, null and 0 are falsy
TruthyOpt(o) == Given(o) /\ o[1] # 0

Selection(size, width) == [ selectedSize |-> size, selectedWidth |-> width ]

\* the loop "for (let i = preferredIndex + 1; i < sizeOrder.length; i++)"
RECURSIVE FallbackFrom(_, _)
FallbackFrom(i, originalWidth) ==
    IF i >= Len(sizeOrder) THEN Selection("original", Undefined)
    ELSE LET alternativeSize == sizeOrder[i + 1]
             alternativeWidth == getSizeMap(alternativeSize)
         IN IF ~TruthyOpt(alternativeWidth) \/ alternativeWidth[1] <= originalWidth
              THEN Selection(alternativeSize, alternativeWidth)
              ELSE FallbackFrom(i + 1, originalWidth)

validateAndSelectSize(imageData, preferredSize) ==
    LET preferredIndex == indexOf(preferredSize)
        requestedWidth == getSizeMap(preferredSize)
    IN IF preferredIndex = 0 - 1 THEN Selection("original", Undefined)
       ELSE IF ~(TruthyOpt(imageData.width) /\ TruthyOpt(imageData.height))
         THEN Selection(preferredSize, requestedWidth)
       ELSE LET originalWidth == imageData.width[1] IN
         IF ~TruthyOpt(requestedWidth) \/ requestedWidth[1] >= originalWidth
           THEN IF TruthyOpt(requestedWidth) /\ requestedWidth[1] > originalWidth
                  THEN Selection("original", Undefined)
                  ELSE Selection(preferredSize, requestedWidth)
         ELSE IF requestedWidth[1] <= originalWidth
           THEN Selection(preferredSize, requestedWidth)
         ELSE FallbackFrom(preferredIndex + 1, originalWidth)


(* ------------------------------ manifest ------------------------------- *)
\* The content of the manifest file: not JSON, the JSON value null, an object
\* without "images", an object whose "images" is a number, or an object
\* whose "images" maps photo IDs to image data (entries = how many).
ManifestKinds == { "unparsable", "null", "noImages", "imagesNumber", "images" }

\* ManifestService.loadManifest: validateManifestPath, readJson, then
\* Object.entries(manifestContent.images || {})
loadManifest(m) ==
    IF ~m.exists
      THEN [ threw |-> TRUE, message |-> "Manifest file not found", totalImages |-> 0 ]
    ELSE IF m.kind = "unparsable"
      THEN [ threw |-> TRUE, message |-> "Unexpected token in JSON", totalImages |-> 0 ]
    ELSE IF m.kind = "null"
      THEN [ threw |-> TRUE, message |-> "Cannot read properties of null",
             totalImages |-> 0 ]
    ELSE [ threw |-> FALSE, message |-> "",
           totalImages |-> IF m.kind = "images" THEN m.entries ELSE 0 ]

\* ManifestService.getProcessedImageEntries: no entries is returned as such;
\* otherwise the entries are validated (image data objects pass) and no
\* limit is configured
getProcessedImageEntries(m) == loadManifest(m)

\* ManifestPreloader.validateManifestStructure: << >> is null (valid)
validateManifestStructure(m) ==
    CASE m.kind = "null"         -> << "Manifest must be a valid JSON object" >>
      [] m.kind = "noImages"     -> << "Manifest must contain an 'images' field" >>
      [] m.kind = "imagesNumber" -> << "Manifest 'images' field must be an object" >>
      [] OTHER                   -> << >>

PreloadResult(success, exists, isValid, error, suggestions) ==
    [ success |-> success, exists |-> exists, isValid |-> isValid,
      error |-> error, suggestions |-> suggestions ]

\* ManifestPreloader.validateManifestContent
validateManifestContent(m, opts) ==
    IF m.kind = "unparsable"
      THEN PreloadResult(FALSE, TRUE, << FALSE >>,
                         << "Failed to parse manifest JSON: " >>,
                         opts.provideSuggestions)
    ELSE LET validationError == validateManifestStructure(m) IN
         IF validationError # << >>
           THEN PreloadResult(FALSE, TRUE, << FALSE >>,
                              << "Invalid manifest format: " >> \o validationError,
                              opts.provideSuggestions)
           ELSE PreloadResult(TRUE, TRUE, << TRUE >>,
                              IF m.entries = 0
                                THEN << "Manifest contains no images" >>
                                ELSE << >>,
                              FALSE)

\* ManifestPreloader.preloadManifest
preloadManifest(m, opts) ==
    IF ~m.exists
      THEN PreloadResult(FALSE, FALSE, << >>, << "Manifest file not found: " >>,
                         opts.provideSuggestions)
    ELSE IF opts.validateContent
      THEN validateManifestContent(m, opts)
    ELSE PreloadResult(TRUE, TRUE, << >>, << >>, FALSE)

(* ------------------------------ metadata ------------------------------- *)
UnknownAuthor == "Unknown author"
\* a string in a condition: undefined, null and "" are falsy
TruthyStr(o) == Given(o) /\ o[1] # ""

\* the metadata fields of the result a successful download builds from the
\* manifest entry: author: imageData.image_author || "Unknown author", ...
BasicResult(imageData) ==
    [ author      |-> IF TruthyStr(imageData.image_author)
                        THEN imageData.image_author ELSE << UnknownAuthor >>,
      authorUrl   |-> imageData.image_author_url,
      width       |-> imageData.width,
      height      |-> imageData.height,
      description |-> imageData.description ]

\* UnsplashAPIService.fetchImageMetadata: the photo of GET /photos/{id}, or
\* the fallback metadata when the request fails
fetchImageMetadata(api) ==
    IF api.kind = "error"
      THEN [ author |-> << UnknownAuthor >>, authorUrl |-> << "" >>,
             width |-> << 0 >>, height |-> << 0 >>, description |-> << >> ]
      ELSE [ author |-> << api.name >>,
             authorUrl |-> << "https://unsplash.com/@" \o api.username >>,
             width |-> << api.width >>, height |-> << api.height >>,
             description |-> IF TruthyStr(api.description)
                               THEN api.description ELSE api.alt_description ]

\* DownloadService.enhanceWithApiMetadata on a successful result
enhanceWithApiMetadata(result, api) ==
    LET apiMetadata == fetchImageMetadata(api) IN
    [ author      |-> apiMetadata.author,
      authorUrl   |-> apiMetadata.authorUrl,
      width       |-> apiMetadata.width,
      height      |-> apiMetadata.height,
      description |-> IF TruthyStr(apiMetadata.description)
                        THEN apiMetadata.description ELSE result.description ]

(* ------------------------------- summary ------------------------------- *)
RECURSIVE SumSizes(_)
\* reduce((sum, r) => sum + (r.size || 0), 0)
SumSizes(rs) == IF rs = << >> THEN 0 ELSE Head(rs).size + SumSizes(Tail(rs))

\* FileSystemService.calculateTotalStorage
calculateTotalStorage_DownloadedOnly(rs) ==
    SumSizes(SelectSeq(rs, LAMBDA r : r.success /\ ~r.skipped))
calculateTotalStorage(rs) ==
    SumSizes(SelectSeq(rs, LAMBDA r : r.success /\ Truthy(r.size)))

\* DownloadService.getDownloadSummary
getDownloadSummary(rs) ==
    [ successful   |-> Len(SelectSeq(rs, LAMBDA r : r.success /\ ~r.skipped)),
      failed       |-> Len(SelectSeq(rs, LAMBDA r : ~r.success)),
      skipped      |-> Len(SelectSeq(rs, LAMBDA r : r.skipped)),
      totalStorage |-> calculateTotalStorage(rs) ]

\* every successful result is built with a filepath
HasFilepath(r) == r.success
\* FileSystemService.createLocalManifest: the image records of the file,
\* one for each result with "result.success && result.filepath"
createLocalManifest(rs) ==
    { [ photoId |-> rs[n].photoId, size_bytes |-> rs[n].size,
        skipped |-> rs[n].skipped ] :
        n \in { k \in 1 .. Len(rs) : rs[k].success /\ HasFilepath(rs[k]) } }

(* ------------------------ manifest path resolution --------------------- *)
\* A path is the sequence of its segments below the working directory
\* (".." steps first): path.resolve(workingDir, ...segments).
ManifestFilename == "unsplash-manifest.json"
commonDirs == << "public", "assets", "data", "static", "resources", "content" >>
\* the nested paths tried inside each common directory
nestedDirs ==
    << << "images" >>, << "assets" >>, << "data" >>, << "unsplash" >>,
       << "images", "unsplash" >> >>
ParentLevels == 3
\* "../".repeat(level)
RECURSIVE Up(_)
Up(level) == IF level = 0 THEN << >> ELSE << ".." >> \o Up(level - 1)

\* fs.existsSync / fs.pathExists on an arrangement of files: a manifest file
\* that is there, or the public directory, there when it holds a file or
\* was created empty
PathExists(fs, p) ==
    \/ p \in fs.files
    \/ /\ p = << "public" >>
       /\ \/ fs.emptyPublic
          \/ \E f \in fs.files : Len(f) > 1 /\ f[1] = "public"

\* the loop over nestedPaths, from position n on: << >> is "none exists"
RECURSIVE FirstNested(_, _, _)
FirstNested(fs, dir, n) ==
    IF n > Len(nestedDirs) THEN << >>
    ELSE LET nestedPath == << dir >> \o nestedDirs[n] \o << ManifestFilename >> IN
         IF PathExists(fs, nestedPath) THEN << nestedPath >>
         ELSE FirstNested(fs, dir, n + 1)

\* the loop over commonDirs in the working directory, from position d on
RECURSIVE FirstCommon(_, _)
FirstCommon(fs, d) ==
    IF d > Len(commonDirs) THEN << >>
    ELSE LET dirPath == << commonDirs[d], ManifestFilename >> IN
         IF PathExists(fs, dirPath) THEN << dirPath >>
         ELSE IF FirstNested(fs, commonDirs[d], 1) # << >>
           THEN FirstNested(fs, commonDirs[d], 1)
         ELSE FirstCommon(fs, d + 1)

\* the loop over commonDirs inside a parent directory, from position d on
RECURSIVE FirstParentCommon(_, _, _)
FirstParentCommon(fs, parentDir, d) ==
    IF d > Len(commonDirs) THEN << >>
    ELSE LET parentCommonPath == parentDir \o << commonDirs[d], ManifestFilename >> IN
         IF PathExists(fs, parentCommonPath) THEN << parentCommonPath >>
         ELSE FirstParentCommon(fs, parentDir, d + 1)

\* the loop "for (let level = 1; level <= 3; level++)"
RECURSIVE FirstParent(_, _)
FirstParent(fs, level) ==
    IF level > ParentLevels THEN << >>
    ELSE LET parentDir == Up(level)
             parentPath == parentDir \o << ManifestFilename >>
         IN IF PathExists(fs, parentPath) THEN << parentPath >>
            ELSE IF FirstParentCommon(fs, parentDir, 1) # << >>
              THEN FirstParentCommon(fs, parentDir, 1)
            ELSE FirstParent(fs, level + 1)

\* no manifest found: public/ if that directory exists, else the working
\* directory
MostLikelyLocation(fs) ==
    IF PathExists(fs, << "public" >>) THEN << "public", ManifestFilename >>
    ELSE << ManifestFilename >>

\* Config.getManifestPathSync
getManifestPathSync(fs) ==
    LET currentPath == << ManifestFilename >> IN
    IF PathExists(fs, currentPath) THEN currentPath
    ELSE IF FirstCommon(fs, 1) # << >> THEN FirstCommon(fs, 1)[1]
    ELSE MostLikelyLocation(fs)

\* OptionParser.getSmartManifestPath
getSmartManifestPath(fs) ==
    LET currentPath == << ManifestFilename >> IN
    IF PathExists(fs, currentPath) THEN currentPath
    ELSE IF FirstCommon(fs, 1) # << >> THEN FirstCommon(fs, 1)[1]
    ELSE IF FirstParent(fs, 1) # << >> THEN FirstParent(fs, 1)[1]
    ELSE MostLikelyLocation(fs)

\* PathResolver.findManifestInCommonLocations
findManifestInCommonLocations(fs) ==
    LET currentDirPath == << ManifestFilename >> IN
    IF PathExists(fs, currentDirPath) THEN currentDirPath
    ELSE IF FirstCommon(fs, 1) # << >> THEN FirstCommon(fs, 1)[1]
    ELSE IF FirstParent(fs, 1) # << >> THEN FirstParent(fs, 1)[1]
    ELSE MostLikelyLocation(fs)

(* --------------------------- authentication --------------------------- *)
\* What one attemptLogin call meets: the homepage fails to load, shows no
\* login link (the session is logged in) or shows it; credentials in the
\* environment or not; headless or not; whether the user, asked to log in
\* by hand, did so before pressing Enter; and how the automatic login ends.
LoginEnvs ==
    { e \in [ home : { "throws", "noLoginLink", "loginLink" },
              credentials : BOOLEAN, headless : BOOLEAN, manualDone : BOOLEAN,
              auto : { "verified", "stillNeedsLogin", "throws" } ] :
        /\ e.home # "loginLink" =>
              (~e.credentials /\ e.headless /\ ~e.manualDone /\ e.auto = "throws")
        /\ (e.home = "loginLink" /\ ~e.credentials) => e.auto = "throws"
        /\ (e.home = "loginLink" /\ e.credentials) => (e.headless /\ ~e.manualDone)
        /\ e.headless => ~e.manualDone }
\* no credentials, headless, and the homepage shows the login link
AnonymousEnv ==
    [ home |-> "loginLink", credentials |-> FALSE, headless |-> TRUE,
      manualDone |-> FALSE, auto |-> "throws" ]

LoginOutcome(returns, threw, isLoggedIn, pageCalls, observed) ==
    [ returns |-> returns, threw |-> threw, isLoggedIn |-> isLoggedIn,
      pageCalls |-> pageCalls, observed |-> observed ]

\* handleMissingCredentials: wait for a manual login when a browser window
\* is shown, give up when headless
handleMissingCredentials(e) ==
    IF ~e.headless
      THEN LoginOutcome(TRUE, FALSE, TRUE, 2, FALSE)
      ELSE LoginOutcome(FALSE, FALSE, FALSE, 1, FALSE)

\* performAutomaticLogin: fill and submit the form, then look for the login
\* link on the homepage; every error is caught
performAutomaticLogin(e) ==
    IF e.auto = "verified"
      THEN LoginOutcome(TRUE, FALSE, TRUE, 3, TRUE)
      ELSE LoginOutcome(FALSE, FALSE, FALSE, IF e.auto = "throws" THEN 2 ELSE 3,
                        FALSE)

\* attemptLogin: what it returns, whether an error leaves it, the flag it
\* leaves, the page navigations it made, and whether it saw the session
\* logged in on the page
attemptLogin(isLoggedIn, e) ==
    IF isLoggedIn THEN LoginOutcome(TRUE, FALSE, TRUE, 0, FALSE)
    ELSE IF e.home = "throws" THEN LoginOutcome(FALSE, FALSE, FALSE, 1, FALSE)
    ELSE IF e.home = "noLoginLink" THEN LoginOutcome(TRUE, FALSE, TRUE, 1, TRUE)
    ELSE IF ~e.credentials THEN handleMissingCredentials(e)
    ELSE performAutomaticLogin(e)

\* the service after construction or reset(), before a call that meets e
FreshAuth(e) ==
    [ isLoggedIn |-> FALSE, env |-> e, calls |-> 0, returned |-> << >>,
      pageCalls |-> 0, observed |-> FALSE ]

\* the service after an attemptLogin call with outcome r
AfterLogin(a, r) ==
    [ a EXCEPT !.isLoggedIn = r.isLoggedIn,
               !.calls = @ + 1,
               !.returned = << r.returns >>,
               !.pageCalls = r.pageCalls,
               !.observed = @ \/ r.observed ]

\* PlaywrightImageDownloader.cleanup: does an error of the browser cleanup
\* leave it
cleanup_Rethrows(browserCleanupThrows) == [ threw |-> browserCleanupThrows ]
cleanup(browserCleanupThrows) == [ threw |-> FALSE ]

(* ------------------------------- state --------------------------------- *)
VARIABLES
    pc,            \* position of run(): the step it is about to take
    runResult,     \* how run() ends: "none", "returned", "void", "thrown"
    thrownBy,      \* the step whose error run() rethrows, "" if none
    options,       \* the option bag given to the constructor
    config,        \* the validated configuration
    entryCount,    \* number of entries of the source manifest
    dirExists,     \* does the download directory exist on disk
    disk,          \* disk[photoId][ext]: size of downloadDir/photoId+ext, or Absent
    results,       \* the results array of the coordinator, by index
    returned,      \* the list the coordinator returned
    stats,         \* StatsTracker counters
    seq,           \* the sequential loop: index, position, attempt
    currentIndex,  \* the shared cursor of the worker loops
    workers,       \* the worker loops: position, entry, attempt, context held
    pool,          \* the context pool: size and free contexts
    log,           \* history: calls made for each entry, files written
    szIn,          \* size selector: the input drawn
    szOut,         \* size selector: the selection returned
    manifest,      \* the source manifest file: on disk or not, and its content
    preload,       \* ManifestPreloader: the input drawn and the result returned
    summary,       \* the summary generateReports returned
    localManifest, \* the image records of downloadDir/local-manifest.json
    mdIn,          \* metadata: the manifest entry and the API answer drawn
    mdOut,         \* metadata: the result a successful download returned
    auth,          \* AuthenticationService: its flag, and the login calls made
    transfers,     \* what a download attempt can meet at the server
    previous,      \* the run before this one over the same directory, if any
    paths          \* manifest path resolution: the files there, the paths found

vars == << pc, runResult, thrownBy, options, config, entryCount, dirExists, disk,
           results, returned, stats, seq, currentIndex, workers, pool, log,
           szIn, szOut, manifest, preload, summary, localManifest, mdIn,
           mdOut, auth, transfers, previous, paths >>

runVars == << pc, runResult, thrownBy, options, config, entryCount, dirExists,
              disk, results, returned, stats, seq, currentIndex, workers, pool,
              log, manifest, summary, localManifest >>

sizeVars == << szIn, szOut >>
\* what surrounds a run: the login state, the server, the run before, the
\* path resolution
sessionVars == << auth, transfers, previous, paths >>
\* what no step of run() but the login changes
inputVars == << options, config, entryCount, szIn, szOut, manifest,
               preload, mdIn, mdOut, sessionVars >>
\* what generateReports produces
reportVars == << summary, localManifest >>
ctlVars == << pc, runResult, thrownBy >>
fsVars == << dirExists, disk >>
coordVars == << results, returned, stats, seq, currentIndex, workers, pool, log >>

NoResult ==
    [ defined |-> FALSE, success |-> FALSE, photoId |-> "", skipped |-> FALSE,
      size |-> 0, error |-> "", dryRun |-> FALSE ]
SuccessResult(photoId, size, isDryRun) ==
    [ defined |-> TRUE, success |-> TRUE, photoId |-> photoId, skipped |-> FALSE,
      size |-> size, error |-> "", dryRun |-> isDryRun ]
SkippedResult(photoId, size) ==
    [ defined |-> TRUE, success |-> TRUE, photoId |-> photoId, skipped |-> TRUE,
      size |-> size, error |-> "", dryRun |-> FALSE ]
FailedResult(photoId, message) ==
    [ defined |-> TRUE, success |-> FALSE, photoId |-> photoId, skipped |-> FALSE,
      size |-> 0, error |-> message, dryRun |-> FALSE ]

WorkerIds == 0 .. (MaxConcurrency - 1)
IdleWorker == [ pc |-> "idle", entryIndex |-> 0, attempt |-> 0, context |-> FALSE ]
IdleSeq == [ pc |-> "idle", index |-> 0, attempt |-> 0 ]
ZeroCounts == [ i \in EntryIndexes |-> 0 ]
EmptyLog ==
    [ attempts      |-> ZeroCounts,   \* executions of the download try-body
      navigations   |-> ZeroCounts,   \* page navigations of the browser
      acquired      |-> ZeroCounts,   \* acquireContext calls that returned
      released      |-> ZeroCounts,   \* releaseContext calls
      apiCalls      |-> ZeroCounts,   \* requests to the metadata API
      emptySaves    |-> ZeroCounts,   \* transfers that left a zero-byte file
      backoffs      |-> [ i \in EntryIndexes |-> << >> ],  \* backoff sleeps, in ms
      lastOutcome   |-> [ i \in EntryIndexes |-> << >> ],  \* what the last attempt met
      found         |-> [ i \in EntryIndexes |-> FALSE ],  \* file on disk at the probe
      filesWritten  |-> 0,
      cleanups      |-> 0,            \* calls of the browser cleanup
      cleanupFailed |-> FALSE,        \* the browser cleanup threw
      manifestWrites |-> 0,
      outOfOrder    |-> FALSE ]       \* a result was stored before an earlier entry's

(* ------------------------------ inputs --------------------------------- *)
RetriesInputs ==
    { Undefined, << DeepRetries >> } \cup { << r >> : r \in (0 - 1) .. MaxRetries }
ConcurrencyInputs ==
    { Undefined } \cup
    { << c >> : c \in { 0 - 1, 0, 1, 2, MaxConcurrency, MaxConcurrency + 1 } }
DownloadDirInputs == { "", "/downloads" }
TimeoutInputs == { Undefined, << 0 - 1 >>, << 0 >>, << 1 >>, << DefaultTimeout >> }
\* the option bags a Config is constructed from
ConfigOptionInputs ==
    [ timeout : TimeoutInputs, retries : RetriesInputs,
      concurrency : ConcurrencyInputs, enableConcurrency : BOOLEAN,
      dryRun : BOOLEAN, downloadDir : DownloadDirInputs ]
\* the option bags of the runs explored: the timeout, which only bounds the
\* waits of the browser, is left at its default
OptionInputs ==
    { o \in ConfigOptionInputs :
        /\ o.timeout = Undefined
        /\ o.retries = << DeepRetries >> => ~o.enableConcurrency }

\* a file already in the download directory before the run
InitialFolders ==
    { EmptyFolder, [ EmptyFolder EXCEPT ![".png"] = NonEmptySize ] }
\* what a download attempt meets: the browser step throws, or a transfer
\* completes with a suggested file name and a byte size
Outcomes ==
    { [ kind |-> "fail", ext |-> "", size |-> 0 ] } \cup
    [ kind : { "download" }, ext : { "" }, size : { 0, NonEmptySize } ]

\* the manifest files: a missing file has no content to tell apart
ManifestInputs ==
    { m \in [ exists : BOOLEAN, kind : ManifestKinds, entries : 0 .. MaxEntries ] :
        /\ m.entries > 0 => m.kind = "images"
        /\ ~m.exists => (m.kind = "noImages" /\ m.entries = 0) }
NoManifest == [ exists |-> FALSE, kind |-> "noImages", entries |-> 0 ]
DefaultPreloadOptions == [ validateContent |-> TRUE, provideSuggestions |-> TRUE ]
NoPreloadResult == PreloadResult(FALSE, FALSE, << >>, << >>, FALSE)
NoSummary == [ successful |-> 0, failed |-> 0, skipped |-> 0, totalStorage |-> 0 ]
NoMetadata ==
    [ author |-> << >>, authorUrl |-> << >>, width |-> << >>, height |-> << >>,
      description |-> << >> ]
NoApiAnswer ==
    [ kind |-> "error", name |-> "", username |-> "", width |-> 0, height |-> 0,
      description |-> << >>, alt_description |-> << >> ]

\* no call of the size selector, the preloader or the metadata lookup
NoSizeCall ==
    /\ szIn = [ width |-> Undefined, height |-> Undefined, preferredSize |-> "" ]
    /\ szOut = Selection("", Undefined)
NoPreloadCall ==
    preload = [ options |-> DefaultPreloadOptions, called |-> FALSE,
                result |-> NoPreloadResult ]
NoMetadataCall ==
    /\ mdIn = [ entry |-> [ image_author |-> << >>, image_author_url |-> << >>,
                            width |-> << >>, height |-> << >>,
                            description |-> << >> ],
                api |-> NoApiAnswer ]
    /\ mdOut = NoMetadata
\* no login attempted yet, by a service that will meet e
NoLoginCall(e) == auth = FreshAuth(e)
NoPreviousRun ==
    previous = [ ran |-> FALSE, returned |-> << >>, emptySaves |-> ZeroCounts ]
NoPathCall ==
    paths = [ files |-> {}, emptyPublic |-> FALSE, called |-> FALSE,
              config |-> << >>, parser |-> << >>, resolver |-> << >> ]
\* a first run, without credentials, against a server that names its files
\* without an extension
PlainSession ==
    /\ NoLoginCall(AnonymousEnv)
    /\ transfers = Outcomes
    /\ NoPreviousRun
    /\ NoPathCall
\* the coordinator before any download
IdleCoordinator ==
    /\ results = [ i \in EntryIndexes |-> NoResult ]
    /\ returned = << >>
    /\ stats = [ downloaded |-> 0, skipped |-> 0, failed |-> 0 ]
    /\ seq = IdleSeq
    /\ currentIndex = 0
    /\ workers = [ w \in WorkerIds |-> IdleWorker ]
    /\ pool = [ size |-> 0, free |-> 0 ]
    /\ log = EmptyLog
    /\ summary = NoSummary
    /\ localManifest = {}

InitRun ==
    /\ pc = "construct"
    /\ runResult = "none"
    /\ thrownBy = ""
    /\ options \in OptionInputs
    /\ config = validateAndSetDefaults(options)
    /\ manifest \in ManifestInputs
    /\ entryCount = getProcessedImageEntries(manifest).totalImages
    /\ dirExists \in BOOLEAN
    /\ disk \in [ PhotoIds -> InitialFolders ]
    /\ \A i \in EntryIndexes :
          (i >= entryCount \/ ~dirExists) => disk[PhotoIdAt(i)] = EmptyFolder
    /\ IdleCoordinator

Init ==
    /\ InitRun
    /\ PlainSession
    /\ NoSizeCall
    /\ NoPreloadCall
    /\ NoMetadataCall

(* ------------------------------- run() --------------------------------- *)
\* an error reaches run()'s catch, which rethrows it; finally runs cleanup
Throw(by) ==
    /\ pc' = "cleanup"
    /\ runResult' = "thrown"
    /\ thrownBy' = by

\* new Config(options): validateAndSetDefaults then validateConfig
Construct ==
    /\ pc = "construct"
    /\ pc' = IF validateConfig(config) = "ok" THEN "initialize" ELSE "configError"
    /\ UNCHANGED << runResult, thrownBy, inputVars, fsVars, coordVars >>
    /\ UNCHANGED reportVars

\* initialize(): the browser starts, or fails to
Initialize ==
    /\ pc = "initialize"
    /\ \E started \in BOOLEAN :
          IF started
            THEN pc' = "loadManifest" /\ UNCHANGED << runResult, thrownBy >>
            ELSE Throw("initialize")
    /\ UNCHANGED << inputVars, fsVars, coordVars >>
    /\ UNCHANGED reportVars

\* loadAndProcessManifest(): an error of getProcessedImageEntries is rethrown
\* by run(), no entries makes run() return
LoadManifest ==
    /\ pc = "loadManifest"
    /\ LET loaded == getProcessedImageEntries(manifest) IN
          IF loaded.threw THEN Throw("loadManifest")
          ELSE IF loaded.totalImages = 0
            THEN pc' = "cleanup" /\ runResult' = "void" /\ UNCHANGED thrownBy
          ELSE pc' = "authenticate" /\ UNCHANGED << runResult, thrownBy >>
    /\ UNCHANGED << inputVars, fsVars, coordVars >>
    /\ UNCHANGED reportVars

\* handleAuthentication(): the run goes on whatever attemptLogin returns; an
\* error leaving attemptLogin would reach run()'s catch
Authenticate ==
    /\ pc = "authenticate"
    /\ LET r == attemptLogin(auth.isLoggedIn, auth.env) IN
          /\ auth' = AfterLogin(auth, r)
          /\ IF r.threw THEN Throw("authenticate")
                        ELSE pc' = "downloads" /\ UNCHANGED << runResult, thrownBy >>
    /\ UNCHANGED << options, config, entryCount, szIn, szOut, manifest, preload,
                    mdIn, mdOut, transfers, previous, paths, fsVars, coordVars >>
    /\ UNCHANGED reportVars

(* --------------------------- one download attempt ---------------------- *)
Bump(f, i) == [ f EXCEPT ![i] = @ + 1 ]

\* saveDownload(download, photoId): ensureDownloadDirectory, saveAs, stat
saveDownload(photoId, o) ==
    IF config.downloadDir = ""
      THEN [ threw |-> TRUE, message |-> "Download directory not configured",
             disk |-> disk, dirExists |-> dirExists, size |-> 0, wrote |-> FALSE ]
      ELSE [ threw |-> SavedFileRejected(o.size),
             message |-> "Downloaded file is empty",
             disk |-> [ disk EXCEPT ![photoId][SavedExtension(o.ext)] = o.size ],
             dirExists |-> TRUE, size |-> o.size, wrote |-> TRUE ]

\* exponentialBackoff(attempt): the milliseconds it sleeps
exponentialBackoff_Doubling(attempt) == BackoffStep * 2 ^ (attempt - 1)
exponentialBackoff(attempt) == BackoffStep * attempt

\* the retry test of the catch block: "retries && attempt < retries"
ShouldRetry(retries, attempt) == Truthy(retries) /\ attempt < retries

\* The body of downloadImage / downloadImageConcurrent for one value of
\* attempt: what it returns ("result") or that it backs off and calls itself
\* with attempt + 1 ("retry"), and the disk, counters and history it leaves.
DownloadAttempt(i, attempt, o) ==
    LET photoId == PhotoIdAt(i)
        log1 == [ log EXCEPT !.attempts = Bump(@, i) ]
        Caught(message, d, de, st, lg) ==
            IF ShouldRetry(config.retries, attempt)
              THEN [ kind |-> "retry", result |-> NoResult, disk |-> d,
                     dirExists |-> de, stats |-> st,
                     log |-> [ lg EXCEPT !.backoffs[i] =
                                  Append(@, exponentialBackoff(attempt)) ] ]
              ELSE [ kind |-> "result", result |-> FailedResult(photoId, message),
                     disk |-> d, dirExists |-> de,
                     stats |-> [ st EXCEPT !.failed = @ + 1 ], log |-> lg ]
    IN IF config.dryRun
         THEN LET st == [ stats EXCEPT !.downloaded = @ + 1 ] IN
              IF config.downloadDir = ""
                THEN Caught("Download directory not configured", disk, dirExists,
                            st, log1)
                ELSE \* enhanceWithApiMetadata requests /photos/{id}
                     [ kind |-> "result",
                       result |-> SuccessResult(photoId, SimulatedSize, TRUE),
                       disk |-> disk, dirExists |-> dirExists, stats |-> st,
                       log |-> [ log1 EXCEPT !.apiCalls = Bump(@, i) ] ]
         ELSE LET log2 == [ log1 EXCEPT !.navigations = Bump(@, i),
                                        !.lastOutcome[i] = << o >> ] IN
              IF o.kind = "fail"
                THEN Caught("Could not find download button on page", disk,
                            dirExists, stats, log2)
                ELSE LET s == saveDownload(photoId, o)
                         log3 == [ log2 EXCEPT
                                     !.filesWritten = IF s.wrote THEN @ + 1 ELSE @,
                                     !.emptySaves = IF s.wrote /\ o.size = 0
                                                      THEN Bump(@, i) ELSE @ ]
                     IN IF s.threw
                          THEN Caught(s.message, s.disk, s.dirExists, stats, log3)
                          ELSE [ kind |-> "result",
                                 result |-> SuccessResult(photoId, s.size, FALSE),
                                 disk |-> s.disk, dirExists |-> s.dirExists,
                                 stats |-> [ stats EXCEPT !.downloaded = @ + 1 ],
                                 log |-> [ log3 EXCEPT !.apiCalls = Bump(@, i) ] ]

downloadImage(i, attempt, o) == DownloadAttempt(i, attempt, o)
downloadImageConcurrent(i, attempt, o) == DownloadAttempt(i, attempt, o)

(* ----------------------------- results array --------------------------- *)
\* length of a JavaScript array: one more than its last index in use
ArrayLength(arr) ==
    IF \E i \in EntryIndexes : arr[i].defined
      THEN 1 + CHOOSE i \in EntryIndexes :
                 arr[i].defined /\ \A j \in EntryIndexes : arr[j].defined => j <= i
      ELSE 0
\* results.push(result)
Push_First(arr, r) == [ arr EXCEPT ![0] = r ]
Push(arr, r) == [ arr EXCEPT ![ArrayLength(arr)] = r ]
\* results[entryIndex] = result
StoreResult_Push(arr, entryIndex, r) == Push(arr, r)
StoreResult(arr, entryIndex, r) == [ arr EXCEPT ![entryIndex] = r ]

\* the array as a list, holes and undefined left out
RECURSIVE FilterDefined(_, _)
FilterDefined(arr, i) ==
    IF i >= MaxEntries THEN << >>
    ELSE (IF arr[i].defined THEN << arr[i] >> ELSE << >>) \o FilterDefined(arr, i + 1)

\* the existence probe: a file of the entry under a known image extension
OnDisk(photoId) == \E k \in 1 .. Len(possibleExtensions) :
                       disk[photoId][possibleExtensions[k]] # Absent

(* --------------------------- sequential mode --------------------------- *)
StartSequential ==
    /\ pc = "downloads"
    /\ ~(config.enableConcurrency /\ entryCount > 1)
    /\ pc' = "sequential"
    /\ seq' = [ pc |-> "imageExists", index |-> 0, attempt |-> 0 ]
    /\ UNCHANGED << runResult, thrownBy, inputVars, fsVars, results, returned,
                    stats, currentIndex, workers, pool, log >>
    /\ UNCHANGED reportVars

\* the for-of loop moves to the next entry, or downloadImages returns
SeqAdvance(newResults) ==
    IF seq.index + 1 < entryCount
      THEN /\ seq' = [ pc |-> "imageExists", index |-> seq.index + 1, attempt |-> 0 ]
           /\ UNCHANGED << pc, returned >>
      ELSE /\ seq' = [ seq EXCEPT !.pc = "done" ]
           /\ returned' = FilterDefined(newResults, 0)
           /\ pc' = "reports"

\* await this.fs.imageExists(photoId), outside any try block
SeqImageExists ==
    /\ pc = "sequential" /\ seq.pc = "imageExists"
    /\ LET photoId == PhotoIdAt(seq.index) IN
       IF config.downloadDir = ""
         THEN /\ Throw("downloadImages")
              /\ UNCHANGED << inputVars, fsVars, coordVars >>
         ELSE LET existsCheck == imageExists(disk[photoId])
                  log1 == [ log EXCEPT !.found[seq.index] = OnDisk(photoId) ]
              IN IF existsCheck.exists
                   THEN LET newResults ==
                                Push(results, SkippedResult(photoId, existsCheck.size))
                        IN /\ results' = newResults
                           /\ stats' = [ stats EXCEPT !.skipped = @ + 1 ]
                           /\ log' = log1
                           /\ SeqAdvance(newResults)
                           /\ UNCHANGED << runResult, thrownBy, inputVars, fsVars,
                                           currentIndex, workers, pool >>
                   ELSE /\ seq' = [ seq EXCEPT !.pc = "downloadImage", !.attempt = 1 ]
                        /\ log' = log1
                        /\ UNCHANGED << ctlVars, inputVars, fsVars, results,
                                        returned, stats, currentIndex, workers, pool >>
    /\ UNCHANGED reportVars

\* await this.downloadImage(photoId, imageData, attempt)
SeqDownloadImage ==
    /\ pc = "sequential" /\ seq.pc = "downloadImage"
    /\ \E o \in transfers :
         LET r == downloadImage(seq.index, seq.attempt, o) IN
         /\ disk' = r.disk
         /\ dirExists' = r.dirExists
         /\ stats' = r.stats
         /\ log' = r.log
         /\ IF r.kind = "retry"
              THEN seq' = [ seq EXCEPT !.pc = "backoff" ] /\ UNCHANGED results
              ELSE /\ seq' = [ seq EXCEPT !.pc = "delay" ]
                   /\ results' = Push(results, r.result)
    /\ UNCHANGED << ctlVars, inputVars, returned, currentIndex, workers, pool >>
    /\ UNCHANGED reportVars

\* await this.exponentialBackoff(attempt), then downloadImage(.., attempt + 1)
SeqBackoff ==
    /\ pc = "sequential" /\ seq.pc = "backoff"
    /\ seq' = [ seq EXCEPT !.pc = "downloadImage", !.attempt = @ + 1 ]
    /\ UNCHANGED << ctlVars, inputVars, fsVars, results, returned, stats,
                    currentIndex, workers, pool, log >>
    /\ UNCHANGED reportVars

\* the 1000 ms delay after downloadImage returned
SeqDelay ==
    /\ pc = "sequential" /\ seq.pc = "delay"
    /\ SeqAdvance(results)
    /\ UNCHANGED << runResult, thrownBy, inputVars, fsVars, results, stats,
                    currentIndex, workers, pool, log >>
    /\ UNCHANGED reportVars

(* ------------------------------ context pool --------------------------- *)
\* BrowserManager.initializeContextPool(n): n reusable contexts, all free
initializeContextPool(n) == [ size |-> n, free |-> n ]
\* acquireContext() blocks until a context is free
CanAcquire(p) == p.free > 0
acquireContext(p) == [ p EXCEPT !.free = @ - 1 ]
releaseContext_Dropped(p) == p
releaseContext(p) == [ p EXCEPT !.free = @ + 1 ]

(* ------------------------ bounded-concurrency mode --------------------- *)
\* const concurrency = this.config.get("concurrency") || 3
EffectiveConcurrency(c) == IF Truthy(c) THEN c ELSE FallbackConcurrency

\* The head of a worker's loop, which runs without suspension:
\* while (currentIndex < length) { const entryIndex = currentIndex++; ...
LoopHead_ReadOnly(cur) ==
    IF cur < entryCount
      THEN [ worker |-> [ pc |-> "imageExists", entryIndex |-> cur,
                          attempt |-> 0, context |-> FALSE ],
             currentIndex |-> IF cur + 1 < entryCount THEN cur ELSE cur + 1 ]
      ELSE [ worker |-> [ pc |-> "done", entryIndex |-> 0, attempt |-> 0,
                          context |-> FALSE ],
             currentIndex |-> cur ]
LoopHead(cur) ==
    IF cur < entryCount
      THEN [ worker |-> [ pc |-> "imageExists", entryIndex |-> cur,
                          attempt |-> 0, context |-> FALSE ],
             currentIndex |-> cur + 1 ]
      ELSE [ worker |-> [ pc |-> "done", entryIndex |-> 0, attempt |-> 0,
                          context |-> FALSE ],
             currentIndex |-> cur ]

\* for (let i = 0; i < concurrency; i++) workerPromises.push(createWorker(i)):
\* each worker runs to its first await before the next one is created
RECURSIVE CreateWorkers(_, _, _, _)
CreateWorkers(i, concurrency, cur, ws) ==
    IF i >= concurrency THEN [ workers |-> ws, currentIndex |-> cur ]
    ELSE LET h == LoopHead(cur) IN
         CreateWorkers(i + 1, concurrency, h.currentIndex,
                       [ ws EXCEPT ![i] = h.worker ])

\* the finally block of a worker releases the context whatever the result
ReleasesContext_OnSuccessOnly(result) == result.success
ReleasesContext(result) == TRUE

StartConcurrent ==
    /\ pc = "downloads"
    /\ config.enableConcurrency /\ entryCount > 1
    /\ LET concurrency == EffectiveConcurrency(config.concurrency)
           created == CreateWorkers(0, concurrency, 0, workers)
       IN /\ pool' = initializeContextPool(concurrency)
          /\ workers' = created.workers
          /\ currentIndex' = created.currentIndex
    /\ pc' = "concurrent"
    /\ UNCHANGED << runResult, thrownBy, inputVars, fsVars, results, returned,
                    stats, seq, log >>
    /\ UNCHANGED reportVars

\* a result stored at an index while an earlier entry has none yet
StoredOutOfOrder(arr, entryIndex) ==
    \E j \in EntryIndexes : j < entryIndex /\ ~arr[j].defined

\* the worker goes round its loop: claims the next entry or ends
WorkerAdvance(w, context) ==
    LET h == LoopHead(currentIndex) IN
    /\ workers' = [ workers EXCEPT ![w] = [ h.worker EXCEPT !.context = context ] ]
    /\ currentIndex' = h.currentIndex

\* await this.fs.imageExists(photoId), inside the worker's try block
WorkerImageExists(w) ==
    /\ pc = "concurrent" /\ workers[w].pc = "imageExists"
    /\ LET entryIndex == workers[w].entryIndex
           photoId == PhotoIdAt(entryIndex)
       IN IF config.downloadDir = ""
            THEN \* thrown, caught by the worker: a failed result, no counter
                 /\ results' = StoreResult(results, entryIndex,
                        FailedResult(photoId, "Download directory not configured"))
                 /\ log' = [ log EXCEPT !.outOfOrder =
                                @ \/ StoredOutOfOrder(results, entryIndex) ]
                 /\ WorkerAdvance(w, FALSE)
                 /\ UNCHANGED stats
            ELSE LET existsCheck == imageExists(disk[photoId])
                     log1 == [ log EXCEPT !.found[entryIndex] = OnDisk(photoId) ]
                 IN IF existsCheck.exists
                      THEN /\ results' = StoreResult(results, entryIndex,
                                  SkippedResult(photoId, existsCheck.size))
                           /\ stats' = [ stats EXCEPT !.skipped = @ + 1 ]
                           /\ log' = [ log1 EXCEPT !.outOfOrder =
                                          @ \/ StoredOutOfOrder(results, entryIndex) ]
                           /\ WorkerAdvance(w, FALSE)
                      ELSE /\ workers' = [ workers EXCEPT ![w].pc = "acquireContext" ]
                           /\ log' = log1
                           /\ UNCHANGED << results, stats, currentIndex >>
    /\ UNCHANGED << ctlVars, inputVars, fsVars, returned, seq, pool >>
    /\ UNCHANGED reportVars

\* const context = await this.browser.acquireContext()
WorkerAcquire(w) ==
    /\ pc = "concurrent" /\ workers[w].pc = "acquireContext"
    /\ CanAcquire(pool)
    /\ pool' = acquireContext(pool)
    /\ workers' = [ workers EXCEPT ![w].pc = "downloadImageConcurrent",
                                   ![w].attempt = 1, ![w].context = TRUE ]
    /\ log' = [ log EXCEPT !.acquired = Bump(@, workers[w].entryIndex) ]
    /\ UNCHANGED << ctlVars, inputVars, fsVars, results, returned, stats, seq,
                    currentIndex >>
    /\ UNCHANGED reportVars

\* await this.downloadImageConcurrent(photoId, imageData, context, attempt)
WorkerDownload(w) ==
    /\ pc = "concurrent" /\ workers[w].pc = "downloadImageConcurrent"
    /\ \E o \in transfers :
         LET entryIndex == workers[w].entryIndex
             r == downloadImageConcurrent(entryIndex, workers[w].attempt, o)
         IN /\ disk' = r.disk
            /\ dirExists' = r.dirExists
            /\ stats' = r.stats
            /\ IF r.kind = "retry"
                 THEN /\ workers' = [ workers EXCEPT ![w].pc = "backoff" ]
                      /\ log' = r.log
                      /\ UNCHANGED results
                 ELSE /\ workers' = [ workers EXCEPT ![w].pc = "delay" ]
                      /\ results' = StoreResult(results, entryIndex, r.result)
                      /\ log' = [ r.log EXCEPT !.outOfOrder =
                                     @ \/ StoredOutOfOrder(results, entryIndex) ]
    /\ UNCHANGED << ctlVars, inputVars, returned, seq, currentIndex, pool >>
    /\ UNCHANGED reportVars

\* await this.exponentialBackoff(attempt), the context still held
WorkerBackoff(w) ==
    /\ pc = "concurrent" /\ workers[w].pc = "backoff"
    /\ workers' = [ workers EXCEPT ![w].pc = "downloadImageConcurrent",
                                   ![w].attempt = @ + 1 ]
    /\ UNCHANGED << ctlVars, inputVars, fsVars, results, returned, stats, seq,
                    currentIndex, pool, log >>
    /\ UNCHANGED reportVars

\* the 500 ms delay ends, finally releases the context, the loop goes round
WorkerDelay(w) ==
    /\ pc = "concurrent" /\ workers[w].pc = "delay"
    /\ LET entryIndex == workers[w].entryIndex
           release == ReleasesContext(results[entryIndex])
       IN /\ pool' = IF release THEN releaseContext(pool) ELSE pool
          /\ log' = IF release THEN [ log EXCEPT !.released = Bump(@, entryIndex) ]
                               ELSE log
          /\ WorkerAdvance(w, ~release)
    /\ UNCHANGED << ctlVars, inputVars, fsVars, results, returned, stats, seq >>
    /\ UNCHANGED reportVars

\* await Promise.all(workerPromises); return results.filter(r => r !== undefined)
ConcurrentReturn ==
    /\ pc = "concurrent"
    /\ \A w \in WorkerIds : workers[w].pc \in { "idle", "done" }
    /\ returned' = FilterDefined(results, 0)
    /\ pc' = "reports"
    /\ UNCHANGED << runResult, thrownBy, inputVars, fsVars, results, stats, seq,
                    currentIndex, workers, pool, log >>
    /\ UNCHANGED reportVars

(* ------------------------- reports and cleanup ------------------------- *)
\* generateReports: createLocalManifest writes downloadDir/local-manifest.json
\* with writeJson, which does not create the directory
GenerateReports ==
    /\ pc = "reports"
    /\ IF config.downloadDir = "" \/ ~dirExists
         THEN Throw("generateReports") /\ UNCHANGED << log, reportVars >>
         ELSE /\ log' = [ log EXCEPT !.manifestWrites = @ + 1 ]
              /\ localManifest' = createLocalManifest(returned)
              /\ summary' = getDownloadSummary(returned)
              /\ pc' = "cleanup"
              /\ runResult' = "returned"
              /\ UNCHANGED thrownBy
    /\ UNCHANGED << inputVars, fsVars, results, returned, stats, seq,
                    currentIndex, workers, pool >>

\* finally { await this.cleanup() }: the browser cleanup runs and may throw;
\* an error leaving cleanup() would replace the result of run()
Cleanup ==
    /\ pc = "cleanup"
    /\ pc' = "settled"
    /\ \E browserCleanupThrows \in BOOLEAN :
          /\ log' = [ log EXCEPT !.cleanups = @ + 1,
                                  !.cleanupFailed = browserCleanupThrows ]
          /\ IF cleanup(browserCleanupThrows).threw
                THEN runResult' = "thrown" /\ thrownBy' = "cleanup"
                ELSE UNCHANGED << runResult, thrownBy >>
    /\ UNCHANGED << inputVars, fsVars, results, returned, stats, seq,
                    currentIndex, workers, pool >>
    /\ UNCHANGED reportVars

Next ==
    \/ Construct
    \/ Initialize
    \/ LoadManifest
    \/ Authenticate
    \/ StartSequential
    \/ SeqImageExists
    \/ SeqDownloadImage
    \/ SeqBackoff
    \/ SeqDelay
    \/ StartConcurrent
    \/ \E w \in WorkerIds : WorkerImageExists(w)
    \/ \E w \in WorkerIds : WorkerAcquire(w)
    \/ \E w \in WorkerIds : WorkerDownload(w)
    \/ \E w \in WorkerIds : WorkerBackoff(w)
    \/ \E w \in WorkerIds : WorkerDelay(w)
    \/ ConcurrentReturn
    \/ GenerateReports
    \/ Cleanup

Spec == Init /\ [][Next]_vars

(* --------------------- the size selector on its own -------------------- *)
WidthInputs ==
    { Undefined } \cup
    { << w >> : w \in { 0, 500, SmallWidth, 1000, MediumWidth, 2000, LargeWidth, 3000 } }
HeightInputs == { Undefined, << 0 >>, << 1500 >> }
PreferredInputs == { "original", "large", "medium", "small", "huge" }

DefaultOptions ==
    [ timeout |-> Undefined, retries |-> Undefined, concurrency |-> Undefined,
      enableConcurrency |-> TRUE, dryRun |-> FALSE, downloadDir |-> "/downloads" ]

InitSize ==
    /\ pc = "selectSize"
    /\ runResult = "none"
    /\ thrownBy = ""
    /\ options = DefaultOptions
    /\ config = validateAndSetDefaults(options)
    /\ manifest = NoManifest
    /\ entryCount = 0
    /\ dirExists = FALSE
    /\ disk = [ p \in PhotoIds |-> EmptyFolder ]
    /\ IdleCoordinator
    /\ NoPreloadCall
    /\ NoMetadataCall
    /\ PlainSession
    /\ szIn \in [ width : WidthInputs, height : HeightInputs,
                  preferredSize : PreferredInputs ]
    /\ szOut = Selection("", Undefined)

\* validateAndSelectSize(photoId, imageData, preferredSize) is called once
SelectSize ==
    /\ pc = "selectSize"
    /\ szOut' = validateAndSelectSize(szIn, szIn.preferredSize)
    /\ pc' = "selected"
    /\ UNCHANGED << runResult, thrownBy, options, config, entryCount, szIn,
                    manifest, preload, mdIn, mdOut, fsVars, coordVars >>
    /\ UNCHANGED << reportVars, sessionVars >>

NextSize == SelectSize

SpecSize == InitSize /\ [][NextSize]_vars

\* the orchestrator at position p with default options and nothing loaded
ParkedRun(p) ==
    /\ pc = p
    /\ runResult = "none"
    /\ thrownBy = ""
    /\ options = DefaultOptions
    /\ config = validateAndSetDefaults(options)
    /\ manifest = NoManifest
    /\ entryCount = 0
    /\ dirExists = FALSE
    /\ disk = [ p0 \in PhotoIds |-> EmptyFolder ]
    /\ IdleCoordinator

(* ---------------------- constructing a Config -------------------------- *)
InitConfig ==
    /\ pc = "construct"
    /\ runResult = "none"
    /\ thrownBy = ""
    /\ options \in ConfigOptionInputs
    /\ config = validateAndSetDefaults(options)
    /\ manifest = NoManifest
    /\ entryCount = 0
    /\ dirExists = FALSE
    /\ disk = [ p0 \in PhotoIds |-> EmptyFolder ]
    /\ IdleCoordinator
    /\ PlainSession
    /\ NoSizeCall
    /\ NoPreloadCall
    /\ NoMetadataCall

NextConfig == Construct

SpecConfig == InitConfig /\ [][NextConfig]_vars

(* ------------------- loading and preloading a manifest ----------------- *)
PreloadOptionInputs == [ validateContent : BOOLEAN, provideSuggestions : BOOLEAN ]

InitManifest ==
    /\ pc = "loadManifest"
    /\ runResult = "none"
    /\ thrownBy = ""
    /\ options = DefaultOptions
    /\ config = validateAndSetDefaults(options)
    /\ manifest \in ManifestInputs
    /\ entryCount = getProcessedImageEntries(manifest).totalImages
    /\ dirExists = FALSE
    /\ disk = [ p0 \in PhotoIds |-> EmptyFolder ]
    /\ IdleCoordinator
    /\ PlainSession
    /\ NoSizeCall
    /\ NoMetadataCall
    /\ preload \in [ options : PreloadOptionInputs, called : { FALSE },
                     result : { NoPreloadResult } ]

\* new ManifestPreloader(options).preloadManifest() on the manifest file
PreloadManifest ==
    /\ ~preload.called
    /\ preload' = [ preload EXCEPT
                      !.called = TRUE,
                      !.result = preloadManifest(manifest, preload.options) ]
    /\ UNCHANGED << ctlVars, options, config, entryCount, szIn, szOut, manifest,
                    mdIn, mdOut, fsVars, coordVars, reportVars, sessionVars >>

NextManifest == LoadManifest \/ PreloadManifest

SpecManifest == InitManifest /\ [][NextManifest]_vars

(* ------------------------ the summary on its own ----------------------- *)
\* results as the coordinator builds them, and two shapes it never builds:
\* a successful result of size 0 and a failed result marked skipped
ResultInputs ==
    { SuccessResult("p0", 1000, FALSE), SuccessResult("p0", 2000, FALSE),
      SkippedResult("p0", 500), FailedResult("p0", "Unknown error"),
      SuccessResult("p0", 0, FALSE),
      [ FailedResult("p0", "Unknown error") EXCEPT !.skipped = TRUE ] }
CoordinatorResults ==
    { r \in ResultInputs : (r.skipped => r.success) /\ (r.success => r.size > 0) }
ResultLists == UNION { [ 1 .. n -> ResultInputs ] : n \in 0 .. MaxSummaryLen }

InitSummary ==
    /\ pc = "summarize"
    /\ runResult = "none"
    /\ thrownBy = ""
    /\ options = DefaultOptions
    /\ config = validateAndSetDefaults(options)
    /\ manifest = NoManifest
    /\ entryCount = 0
    /\ dirExists = FALSE
    /\ disk = [ p0 \in PhotoIds |-> EmptyFolder ]
    /\ results = [ i \in EntryIndexes |-> NoResult ]
    /\ returned \in ResultLists
    /\ stats = [ downloaded |-> 0, skipped |-> 0, failed |-> 0 ]
    /\ seq = IdleSeq
    /\ currentIndex = 0
    /\ workers = [ w \in WorkerIds |-> IdleWorker ]
    /\ pool = [ size |-> 0, free |-> 0 ]
    /\ log = EmptyLog
    /\ summary = NoSummary
    /\ localManifest = {}
    /\ PlainSession
    /\ NoSizeCall
    /\ NoPreloadCall
    /\ NoMetadataCall

\* getDownloadSummary(results) is called once
Summarize ==
    /\ pc = "summarize"
    /\ summary' = getDownloadSummary(returned)
    /\ pc' = "summarized"
    /\ UNCHANGED << runResult, thrownBy, inputVars, fsVars, coordVars,
                    localManifest >>

NextSummary == Summarize

SpecSummary == InitSummary /\ [][NextSummary]_vars

(* ----------------- the metadata of a successful result ----------------- *)
EntryInputs ==
    [ image_author : { << >>, << "" >>, << "Alice" >> },
      image_author_url : { << >>, << "https://unsplash.com/@alice" >> },
      width : { << >>, << 4000 >> },
      height : { << >>, << 3000 >> },
      description : { << >>, << "A lake" >> } ]
\* what GET /photos/{id} answers: an error, or the photo
ApiAnswers ==
    { NoApiAnswer } \cup
    [ kind : { "photo" }, name : { "Alice", "Alice B." }, username : { "alice" },
      width : { 4000, 6000 }, height : { 3000 },
      description : { << >>, << "A lake" >> },
      alt_description : { << >>, << "lake at dawn" >> } ]

InitMeta ==
    /\ ParkedRun("enhance")
    /\ PlainSession
    /\ NoSizeCall
    /\ NoPreloadCall
    /\ mdIn \in [ entry : EntryInputs, api : ApiAnswers ]
    /\ mdOut = NoMetadata

\* the end of a successful downloadImage: the result is built from the
\* manifest entry, then passed through enhanceWithApiMetadata
EnhanceResult ==
    /\ pc = "enhance"
    /\ mdOut' = enhanceWithApiMetadata(BasicResult(mdIn.entry), mdIn.api)
    /\ pc' = "enhanced"
    /\ UNCHANGED << runResult, thrownBy, options, config, entryCount, szIn, szOut,
                    manifest, preload, mdIn, fsVars, coordVars, reportVars,
                    sessionVars >>

NextMeta == EnhanceResult

SpecMeta == InitMeta /\ [][NextMeta]_vars

(* ------------------ the concurrent download phase, fair ---------------- *)
\* runs in bounded-concurrency mode that download: concurrency enabled,
\* several entries, no dry run
\* with one context and with two: entries outnumber contexts, or match them
LiveConcurrencyInputs == { << 1 >>, << 2 >> }
InitLive ==
    /\ Init
    /\ options.enableConcurrency
    /\ options.concurrency \in LiveConcurrencyInputs
    /\ ~options.dryRun
    /\ entryCount > 1

NextLive ==
    \/ Construct
    \/ Initialize
    \/ LoadManifest
    \/ Authenticate
    \/ StartConcurrent
    \/ \E w \in WorkerIds : WorkerImageExists(w)
    \/ \E w \in WorkerIds : WorkerAcquire(w)
    \/ \E w \in WorkerIds : WorkerDownload(w)
    \/ \E w \in WorkerIds : WorkerBackoff(w)
    \/ \E w \in WorkerIds : WorkerDelay(w)
    \/ ConcurrentReturn

\* every await settles (a browser step returns or fails within its timeout,
\* a sleep ends), and the event loop runs a continuation that is ready
SpecLive == InitLive /\ [][NextLive]_vars /\ WF_vars(NextLive)

(* -------------------- runs under every login outcome ------------------- *)
\* the option bags of these runs: both modes, with and without a download
\* directory, everything else at its default
LoginOptionInputs ==
    { o \in OptionInputs :
        /\ o.retries = Undefined /\ o.concurrency = Undefined
        /\ ~o.dryRun }

InitLogin ==
    /\ InitRun
    /\ options \in LoginOptionInputs
    /\ \E e \in LoginEnvs : NoLoginCall(e)
    /\ transfers = Outcomes
    /\ NoPreviousRun
    /\ NoPathCall
    /\ NoSizeCall
    /\ NoPreloadCall
    /\ NoMetadataCall

NextLogin == Next

SpecLogin == InitLogin /\ [][NextLogin]_vars

(* ------------------- the authentication service alone ------------------ *)
InitAuth ==
    /\ ParkedRun("login")
    /\ NoLoginCall(AnonymousEnv)
    /\ transfers = Outcomes
    /\ NoPreviousRun
    /\ NoPathCall
    /\ NoSizeCall
    /\ NoPreloadCall
    /\ NoMetadataCall

\* authService.attemptLogin(), meeting e
AttemptLogin ==
    /\ pc = "login"
    /\ auth.calls < MaxLoginCalls
    /\ \E e \in LoginEnvs :
          auth' = AfterLogin([ auth EXCEPT !.env = e ],
                             attemptLogin(auth.isLoggedIn, e))
    /\ UNCHANGED << ctlVars, options, config, entryCount, szIn, szOut, manifest,
                    preload, mdIn, mdOut, transfers, previous, paths, fsVars,
                    coordVars, reportVars >>

\* authService.reset(): only the flag is cleared
Reset ==
    /\ pc = "login"
    /\ auth' = [ FreshAuth(auth.env) EXCEPT !.calls = auth.calls ]
    /\ UNCHANGED << ctlVars, options, config, entryCount, szIn, szOut, manifest,
                    preload, mdIn, mdOut, transfers, previous, paths, fsVars,
                    coordVars, reportVars >>

NextAuth == AttemptLogin \/ Reset

SpecAuth == InitAuth /\ [][NextAuth]_vars

(* ------------- two runs over the same manifest and directory ----------- *)
\* sequential runs that download into a configured directory
RerunOptionInputs ==
    { o \in OptionInputs :
        /\ o.retries = Undefined /\ o.concurrency = Undefined
        /\ ~o.enableConcurrency /\ ~o.dryRun /\ o.downloadDir # "" }
\* a server that also names its files with an extension, known or not to
\* the existence check
RerunTransfers ==
    Outcomes \cup [ kind : { "download" }, ext : { ".png", ".gif" },
                    size : { NonEmptySize } ]

InitRerun ==
    /\ InitRun
    /\ options \in RerunOptionInputs
    /\ manifest.exists /\ entryCount > 0
    /\ NoLoginCall(AnonymousEnv)
    /\ transfers = RerunTransfers
    /\ NoPreviousRun
    /\ NoPathCall
    /\ NoSizeCall
    /\ NoPreloadCall
    /\ NoMetadataCall

\* the command is started again with the same options, on the same manifest
\* and download directory: a new process, the files of the first run on disk
RunAgain ==
    /\ pc = "settled"
    /\ ~previous.ran
    /\ previous' = [ ran |-> TRUE, returned |-> returned,
                     emptySaves |-> log.emptySaves ]
    /\ pc' = "construct"
    /\ runResult' = "none"
    /\ thrownBy' = ""
    /\ results' = [ i \in EntryIndexes |-> NoResult ]
    /\ returned' = << >>
    /\ stats' = [ downloaded |-> 0, skipped |-> 0, failed |-> 0 ]
    /\ seq' = IdleSeq
    /\ currentIndex' = 0
    /\ workers' = [ w \in WorkerIds |-> IdleWorker ]
    /\ pool' = [ size |-> 0, free |-> 0 ]
    /\ log' = EmptyLog
    /\ summary' = NoSummary
    /\ localManifest' = {}
    /\ auth' = FreshAuth(auth.env)
    /\ UNCHANGED << options, config, entryCount, szIn, szOut, manifest, preload,
                    mdIn, mdOut, transfers, paths, fsVars >>

NextRerun ==
    \/ Construct
    \/ Initialize
    \/ LoadManifest
    \/ Authenticate
    \/ StartSequential
    \/ SeqImageExists
    \/ SeqDownloadImage
    \/ SeqBackoff
    \/ SeqDelay
    \/ GenerateReports
    \/ Cleanup
    \/ RunAgain

SpecRerun == InitRerun /\ [][NextRerun]_vars

(* ------------------ resolving the default manifest path ---------------- *)
\* the places where the three resolutions look for a manifest file
CandidatePaths ==
    { << ManifestFilename >> }
    \cup { << commonDirs[d], ManifestFilename >> : d \in 1 .. Len(commonDirs) }
    \cup { << commonDirs[d] >> \o nestedDirs[n] \o << ManifestFilename >> :
             d \in 1 .. Len(commonDirs), n \in 1 .. Len(nestedDirs) }
    \cup { Up(l) \o << ManifestFilename >> : l \in 1 .. ParentLevels }
    \cup { Up(l) \o << commonDirs[d], ManifestFilename >> :
             l \in 1 .. ParentLevels, d \in 1 .. Len(commonDirs) }

\* the arrangements of at most k manifest files
RECURSIVE Arrangements(_)
Arrangements(k) ==
    IF k = 0 THEN { {} }
    ELSE LET smaller == Arrangements(k - 1) IN
         smaller \cup { a \cup { p } : a \in smaller, p \in CandidatePaths }

InitPaths ==
    /\ ParkedRun("resolve")
    /\ NoLoginCall(AnonymousEnv)
    /\ transfers = Outcomes
    /\ NoPreviousRun
    /\ NoSizeCall
    /\ NoPreloadCall
    /\ NoMetadataCall
    /\ paths \in [ files : Arrangements(MaxManifestFiles), emptyPublic : BOOLEAN,
                    called : { FALSE }, config : { << >> }, parser : { << >> },
                    resolver : { << >> } ]

\* no manifest path given: new Config(), OptionParser's default and
\* PathResolver.resolveManifestPath() each resolve one
ResolveDefaultPaths ==
    /\ pc = "resolve"
    /\ ~paths.called
    /\ paths' = [ paths EXCEPT
                    !.called = TRUE,
                    !.config = getManifestPathSync(paths),
                    !.parser = getSmartManifestPath(paths),
                    !.resolver = findManifestInCommonLocations(paths) ]
    /\ UNCHANGED << ctlVars, options, config, entryCount, szIn, szOut, manifest,
                    preload, mdIn, mdOut, auth, transfers, previous, fsVars,
                    coordVars, reportVars >>

NextPaths == ResolveDefaultPaths

SpecPaths == InitPaths /\ [][NextPaths]_vars

(* =============================== claims ================================ *)
RanSequential == seq.pc # "idle"
RanConcurrent == workers[0].pc # "idle"
CoordinatorReturned == pc \in { "reports", "cleanup", "settled" } /\ thrownBy # "downloadImages"
\* the results stored for the entry at index i
ResultsOf(i) == { k \in EntryIndexes :
                    results[k].defined /\ results[k].photoId = PhotoIdAt(i) }
EntryIndexOf(photoId) == CHOOSE i \in EntryIndexes : PhotoIdAt(i) = photoId
InBackoff(i) ==
    \/ seq.pc = "backoff" /\ seq.index = i
    \/ \E w \in WorkerIds : workers[w].pc = "backoff" /\ workers[w].entryIndex = i
InFlight(i) ==
    \E w \in WorkerIds :
        /\ workers[w].entryIndex = i
        /\ workers[w].pc \in { "downloadImageConcurrent", "backoff", "delay" }
HeldContexts == Cardinality({ w \in WorkerIds : workers[w].context })
WorkerLoops == Cardinality({ w \in WorkerIds : workers[w].pc # "idle" })

\* C1: an entry whose download attempts all fail ends with one Failed result
\* after exactly config.retries attempts, in both modes.
C1_RetryCeiling ==
    \A i \in EntryIndexes :
        \A k \in ResultsOf(i) :
            (~results[k].success /\ log.attempts[i] > 0)
                => /\ log.attempts[i] = config.retries
                   /\ Cardinality(ResultsOf(i)) = 1

\* Where the retry count is at least 1 the ceiling of C1 is kept.
RetryCeilingFromOne ==
    config.retries >= 1 =>
        \A i \in EntryIndexes :
            \A k \in ResultsOf(i) :
                (~results[k].success /\ log.attempts[i] > 0)
                    => /\ log.attempts[i] = config.retries
                       /\ Cardinality(ResultsOf(i)) = 1

\* C2: an entry whose file is in the download directory when it is probed
\* gets no context, no navigation and no download attempt, and its result is
\* a skipped success; sequential and concurrent alike.
C2_SkipPrecedence ==
    \A i \in EntryIndexes :
        log.found[i] =>
            /\ log.acquired[i] = 0
            /\ log.navigations[i] = 0
            /\ log.attempts[i] = 0
            /\ Cardinality(ResultsOf(i)) = 1
            /\ \A k \in ResultsOf(i) : results[k].success /\ results[k].skipped

C2_Witness ==
    /\ RanConcurrent
    /\ runResult = "returned"
    /\ \E i, j \in EntryIndexes : log.found[i] /\ log.attempts[j] > 0

\* C3: in concurrent mode the returned list has one result per entry and the
\* result at position i carries the ID of entry i, whatever the order in
\* which the workers finish.
C3_IndexStable ==
    (RanConcurrent /\ CoordinatorReturned) =>
        /\ Len(returned) = entryCount
        /\ \A i \in 0 .. (entryCount - 1) : returned[i + 1].photoId = PhotoIdAt(i)

C3_Witness ==
    RanConcurrent /\ CoordinatorReturned /\ log.outOfOrder /\ Len(returned) = entryCount

\* C4: no failure of one entry leaves the coordinator; every entry still
\* gets a result, in both modes.
C4_FailuresContained ==
    /\ thrownBy # "downloadImages"
    /\ (pc = "settled" /\ (RanSequential \/ RanConcurrent)) =>
           \A i \in 0 .. (entryCount - 1) : ResultsOf(i) # {}

\* C5: with the browser started, a readable non-empty manifest, a download
\* directory configured and a retry count of at least 1, a run returns
\* results and summary and does not throw when every entry ended Failed.
C5_RunCompletes ==
    ( /\ pc = "settled"
      /\ config.downloadDir # ""
      /\ config.retries >= 1
      /\ entryCount > 0
      /\ Len(returned) = entryCount
      /\ \A n \in 1 .. Len(returned) : ~returned[n].success )
        => runResult = "returned"

\* C6: a transfer that leaves a zero-byte file is a failed attempt: the entry
\* has no successful result after it, and it backs off for another attempt
\* while attempts remain, otherwise its result is Failed; no downloaded
\* result has size 0.
C6_EmptyFileRejected ==
    /\ [](\A k \in EntryIndexes :
            (results[k].defined /\ results[k].success /\ ~results[k].skipped)
                => results[k].size > 0)
    /\ [][ \A i \in EntryIndexes :
             log'.emptySaves[i] > log.emptySaves[i] =>
                /\ \A k \in EntryIndexes :
                      (results'[k].defined /\ results'[k].photoId = PhotoIdAt(i))
                          => ~results'[k].success
                /\ IF log'.attempts[i] < config.retries
                     THEN InBackoff(i)'
                     ELSE \E k \in EntryIndexes :
                            results'[k] = FailedResult(PhotoIdAt(i),
                                                       "Downloaded file is empty")
         ]_vars

C6_Witness ==
    \E i \in EntryIndexes :
        /\ log.emptySaves[i] > 1
        /\ \E k \in EntryIndexes :
              results[k] = FailedResult(PhotoIdAt(i), "Downloaded file is empty")

\* C7: in dry-run mode (download directory configured) the download phase
\* and the rest of the run navigate no page, request nothing of the API,
\* write no file and no manifest, and every entry not on disk gets a
\* Success of the simulated size 1048576.
C7_DryRunPure ==
    (config.dryRun /\ config.downloadDir # "") =>
        /\ \A i \in EntryIndexes : log.navigations[i] = 0 /\ log.apiCalls[i] = 0
        /\ log.filesWritten = 0
        /\ log.manifestWrites = 0
        /\ \A k \in EntryIndexes :
              (results[k].defined /\ ~results[k].skipped)
                  => results[k].success /\ results[k].size = 1048576

\* C8: in concurrent mode a context is acquired at most once for an entry
\* and released exactly once when the entry's processing ends, whatever its
\* result; when all workers have finished none is held.
C8_ContextsReleased ==
    RanConcurrent =>
        /\ \A i \in EntryIndexes :
              log.acquired[i] - log.released[i] = IF InFlight(i) THEN 1 ELSE 0
        /\ pool.size - pool.free = HeldContexts
        /\ (\A w \in WorkerIds : workers[w].pc \in { "idle", "done" })
              => pool.free = pool.size /\ HeldContexts = 0

C8_Witness ==
    /\ RanConcurrent
    /\ pc = "reports"
    /\ \E i, j \in EntryIndexes :
          /\ log.released[i] = 1 /\ \E k \in ResultsOf(i) : ~results[k].success
          /\ log.released[j] = 1 /\ \E k \in ResultsOf(j) : results[k].success

\* C9: for every accepted configuration the pool size and the number of
\* worker loops are between 1 and 10, 3 when concurrency is not given, and
\* never are more contexts held than the pool has.
C9_PoolBounded ==
    RanConcurrent =>
        /\ pool.size >= 1 /\ pool.size <= 10
        /\ WorkerLoops = pool.size
        /\ (options.concurrency = Undefined => pool.size = 3)
        /\ HeldContexts <= pool.size
        /\ \A i \in EntryIndexes : log.acquired[i] - log.released[i] \in { 0, 1 }

C9_Witness ==
    /\ RanConcurrent
    /\ options.concurrency = Undefined
    /\ HeldContexts = 2

\* C10: with the original width known and the preferred tier's ceiling above
\* it, the selection is the first tier after the preferred one, in the order
\* original, large, medium, small, whose ceiling is unconstrained or at most
\* the original width (width 2000, preferred large: medium, 1920); original
\* with no width only when there is none.
ClaimedFallback(preferredSize, originalWidth) ==
    LET fits == { k \in (indexOf(preferredSize) + 2) .. Len(sizeOrder) :
                     \/ ~Given(getSizeMap(sizeOrder[k]))
                     \/ getSizeMap(sizeOrder[k])[1] <= originalWidth }
    IN IF fits = {} THEN Selection("original", Undefined)
       ELSE LET k == CHOOSE x \in fits : \A y \in fits : x <= y
            IN Selection(sizeOrder[k], getSizeMap(sizeOrder[k]))

C10_FallbackWalk ==
    ( /\ pc = "selected"
      /\ TruthyOpt(szIn.width) /\ TruthyOpt(szIn.height)
      /\ Given(getSizeMap(szIn.preferredSize))
      /\ getSizeMap(szIn.preferredSize)[1] > szIn.width[1] )
        => szOut = ClaimedFallback(szIn.preferredSize, szIn.width[1])

\* C11: for an entry whose original width is a positive number, whatever its
\* height, and any preferred tier, the selection is original or a tier whose
\* width ceiling is at most the original width.
C11_CeilingRespected ==
    ( /\ pc = "selected"
      /\ Given(szIn.width) /\ szIn.width[1] > 0 )
        => \/ szOut.selectedSize = "original"
           \/ /\ Given(szOut.selectedWidth)
              /\ szOut.selectedWidth[1] <= szIn.width[1]

\* With width and height both known the ceiling of C11 is respected.
CeilingRespectedWithDimensions ==
    ( /\ pc = "selected"
      /\ TruthyOpt(szIn.width) /\ TruthyOpt(szIn.height) )
        => \/ szOut.selectedSize = "original"
           \/ /\ Given(szOut.selectedWidth)
              /\ szOut.selectedWidth[1] <= szIn.width[1]

\* the sum of size over the first n results that are successful
RECURSIVE SizeOfSuccessful(_, _)
SizeOfSuccessful(rs, n) ==
    IF n = 0 THEN 0
    ELSE (IF rs[n].success THEN rs[n].size ELSE 0) + SizeOfSuccessful(rs, n - 1)

\* C12: the summary of a list of results counts successful = success and not
\* skipped, failed = not success, skipped = skipped, and totalStorage = sum
\* of size over the successful results, skipped ones included; for results
\* as the coordinator builds them the three counts add up to the length of
\* the list.
C12_SummaryCounts ==
    pc = "summarized" =>
        LET ix == 1 .. Len(returned) IN
        /\ summary.successful =
              Cardinality({ n \in ix : returned[n].success /\ ~returned[n].skipped })
        /\ summary.failed = Cardinality({ n \in ix : ~returned[n].success })
        /\ summary.skipped = Cardinality({ n \in ix : returned[n].skipped })
        /\ summary.totalStorage = SizeOfSuccessful(returned, Len(returned))
        /\ (\A n \in ix : returned[n] \in CoordinatorResults)
              => summary.successful + summary.failed + summary.skipped
                    = Len(returned)

\* successes of 1000 and 2000 bytes, a skip of 500 bytes and a failure
C12_Witness ==
    /\ pc = "summarized"
    /\ returned = << SuccessResult("p0", 1000, FALSE), SuccessResult("p0", 2000, FALSE),
                     SkippedResult("p0", 500), FailedResult("p0", "Unknown error") >>
    /\ summary = [ successful |-> 2, failed |-> 1, skipped |-> 1,
                   totalStorage |-> 3500 ]

\* C13: a Success result echoes the metadata of its manifest entry: author
\* (Unknown author only when the entry has none), author URL, width, height
\* and description are those of the entry, whether the metadata lookup
\* succeeds or not.
C13_MetadataEchoed ==
    pc = "enhanced" =>
        /\ mdOut.author = IF TruthyStr(mdIn.entry.image_author)
                            THEN mdIn.entry.image_author ELSE << UnknownAuthor >>
        /\ mdOut.authorUrl = mdIn.entry.image_author_url
        /\ mdOut.width = mdIn.entry.width
        /\ mdOut.height = mdIn.entry.height
        /\ mdOut.description = mdIn.entry.description

\* What the result carries instead: the author, author URL, width and height
\* of the lookup's answer, and its description when it has one.
MetadataFromLookup ==
    pc = "enhanced" =>
        LET apiMetadata == fetchImageMetadata(mdIn.api) IN
        /\ mdOut.author = apiMetadata.author
        /\ mdOut.authorUrl = apiMetadata.authorUrl
        /\ mdOut.width = apiMetadata.width
        /\ mdOut.height = apiMetadata.height
        /\ mdOut.description \in { apiMetadata.description, mdIn.entry.description }

\* C14: in sequential mode the result at position i is that of entry i, and
\* the existence check of an entry begins only when every earlier entry has
\* its result.
C14_SequentialOrder ==
    RanSequential =>
        /\ \A k \in EntryIndexes :
              results[k].defined => results[k].photoId = PhotoIdAt(k)
        /\ \A k \in EntryIndexes :
              (k < seq.index /\ seq.pc # "idle") => results[k].defined
        /\ \A k \in EntryIndexes :
              (k > seq.index \/ (k = seq.index /\ seq.pc \in { "imageExists",
                                    "downloadImage", "backoff" }))
                  => (~results[k].defined /\ log.attempts[k] <= (IF k = seq.index
                                                                 THEN seq.attempt ELSE 0))
        /\ CoordinatorReturned =>
              /\ Len(returned) = entryCount
              /\ \A i \in 0 .. (entryCount - 1) :
                    returned[i + 1].photoId = PhotoIdAt(i)

C14_Witness ==
    /\ RanSequential
    /\ CoordinatorReturned
    /\ entryCount = 2
    /\ returned[1].skipped
    /\ ~returned[2].success

\* C15: a manifest file without an "images" field is zero entries and not an
\* error: loading it does not throw, the run ends without any download, and
\* preloading it reports no failure.
C15_MissingImagesIsEmpty ==
    (manifest.exists /\ manifest.kind = "noImages") =>
        /\ pc # "loadManifest" =>
              /\ runResult = "void" /\ thrownBy = ""
              /\ entryCount = 0
              /\ \A i \in EntryIndexes : log.attempts[i] = 0 /\ ~results[i].defined
        /\ preload.called => preload.result.success

\* The loading done by a run treats the missing field as C15 says.
MissingImagesEndsRun ==
    (manifest.exists /\ manifest.kind = "noImages" /\ pc # "loadManifest") =>
        /\ runResult = "void" /\ thrownBy = ""
        /\ entryCount = 0
        /\ \A i \in EntryIndexes : log.attempts[i] = 0 /\ ~results[i].defined

\* C16: a run whose coordinator returned (download directory configured)
\* writes the local manifest exactly once, after every entry has its
\* result, and the image records of the file are exactly the entries whose
\* result is a success, downloaded or skipped; no failed entry is in it.
C16_ManifestWrittenOnce ==
    config.downloadDir # "" =>
        /\ log.manifestWrites <= 1
        /\ (pc = "settled" /\ (RanSequential \/ RanConcurrent)
                            /\ CoordinatorReturned) => log.manifestWrites = 1
        /\ log.manifestWrites = 1 =>
              /\ \A i \in 0 .. (entryCount - 1) : ResultsOf(i) # {}
              /\ { m.photoId : m \in localManifest }
                    = { results[k].photoId :
                          k \in { j \in EntryIndexes :
                                    results[j].defined /\ results[j].success } }

\* When the file is written it is written once, after every entry has its
\* result, with exactly the successful entries as its image records.
ManifestRecordsExact ==
    /\ log.manifestWrites <= 1
    /\ log.manifestWrites = 0 => localManifest = {}
    /\ log.manifestWrites = 1 =>
          /\ CoordinatorReturned
          /\ \A i \in 0 .. (entryCount - 1) : ResultsOf(i) # {}
          /\ { m.photoId : m \in localManifest }
                = { results[k].photoId :
                      k \in { j \in EntryIndexes :
                                results[j].defined /\ results[j].success } }

\* C17: a Config that constructs has timeout > 0 and retries >= 1, and a
\* supplied timeout or retries that is not such a value makes the
\* construction throw.
C17_PositiveTimeoutAndRetries ==
    pc = "initialize" => (config.timeout > 0 /\ config.retries >= 1)

\* What validation does ensure: a negative timeout or retries is refused.
NegativeValuesRefused ==
    pc = "initialize" => (config.timeout >= 0 /\ config.retries >= 0)

\* C18: in concurrent mode a context is acquired for each attempt and is not
\* held during a retry backoff: a worker that backs off holds no context,
\* and an entry has as many acquisitions as attempts.
C18_ReleasedBeforeBackoff ==
    RanConcurrent =>
        /\ \A w \in WorkerIds : workers[w].pc = "backoff" => ~workers[w].context
        /\ \A i \in EntryIndexes : log.acquired[i] >= log.attempts[i]

\* What the worker does: one acquisition for an entry, kept over all its
\* attempts and the backoffs between them.
ContextKeptOverRetries ==
    RanConcurrent =>
        /\ \A w \in WorkerIds : workers[w].pc = "backoff" => workers[w].context
        /\ \A i \in EntryIndexes : log.acquired[i] <= 1

C20_DelayAfterEveryEntry ==
    [][ (pc = "sequential" /\ seq'.index > seq.index) => seq.pc = "delay" ]_vars

\* The loop leaves an entry with a downloaded or failed result out of the
\* delay; it leaves a skipped entry straight from the existence check.
DelayUnlessSkipped ==
    [][ (pc = "sequential" /\ seq'.index > seq.index)
            => \/ seq.pc = "delay"
               \/ seq.pc = "imageExists" /\ results'[seq.index].skipped ]_vars

\* the worker loops that hold entry i and have not stored its result yet
Claimants(i) ==
    { w \in WorkerIds :
        /\ workers[w].entryIndex = i
        /\ workers[w].pc \in { "imageExists", "acquireContext",
                               "downloadImageConcurrent", "backoff" } }

\* C21: in concurrent mode the cursor only increases, and every index it
\* passes is claimed, at that step, by exactly one worker loop: an entry
\* below the cursor is held by one worker or has its one result, an entry at
\* or above it is untouched, and when the coordinator returns the cursor is
\* at the number of entries.
C21_CursorClaimsOnce ==
    /\ [](RanConcurrent =>
            /\ currentIndex <= entryCount
            /\ \A i \in EntryIndexes :
                  IF i < currentIndex
                    THEN Cardinality(Claimants(i)) + Cardinality(ResultsOf(i)) = 1
                    ELSE /\ Claimants(i) = {} /\ ResultsOf(i) = {}
                         /\ ~InFlight(i) /\ log.attempts[i] = 0
            /\ CoordinatorReturned => currentIndex = entryCount)
    /\ [][ pc' = "concurrent" =>
             LET claimed == currentIndex .. (currentIndex' - 1)
                 started == { w \in WorkerIds : /\ workers'[w].pc = "imageExists"
                                                /\ workers'[w] # workers[w] }
             IN /\ currentIndex' >= currentIndex
                /\ \A i \in claimed :
                      Cardinality({ w \in started : workers'[w].entryIndex = i }) = 1
                /\ \A w \in started : workers'[w].entryIndex \in claimed
         ]_vars

\* one worker loop took both entries, one after the other
C21_Witness ==
    /\ RanConcurrent
    /\ pc = "reports"
    /\ pool.size = 1
    /\ currentIndex = 2
    /\ Len(returned) = 2

\* C22: bounded-concurrency processing terminates: once the workers are
\* started the coordinator returns, with every worker loop ended, no context
\* held, and exactly one result for every entry; no worker loop is left
\* waiting for a context.
C22_ConcurrentTerminates ==
    (pc = "concurrent") ~>
        ( /\ pc = "reports"
          /\ \A w \in WorkerIds : workers[w].pc \in { "idle", "done" }
          /\ \A i \in EntryIndexes : log.acquired[i] = log.released[i]
          /\ pool.free = pool.size
          /\ currentIndex = entryCount
          /\ Len(returned) = entryCount
          /\ \A i \in 0 .. (entryCount - 1) : Cardinality(ResultsOf(i)) = 1 )

\* one context for two entries: the second acquisition followed the release
\* of the first, whose entry failed after a retry
C22_Witness ==
    /\ pc = "reports"
    /\ RanConcurrent
    /\ pool.size = 1
    /\ log.acquired[0] = 1 /\ log.acquired[1] = 1
    /\ log.attempts[0] = 3
    /\ ~results[0].success
    /\ results[1].success

\* status, ID and error of a result
Terminal(r) ==
    [ success |-> r.success, skipped |-> r.skipped, photoId |-> r.photoId,
      error |-> r.error ]

\* The terminal result of the per-entry state machine for entry i, from the
\* outcome of its existence check and of its download attempts: the check
\* fails (Failed), finds the file (SuccessSkipped), or the last attempt
\* decides.
EntryResult(i) ==
    LET photoId == PhotoIdAt(i)
        met == log.lastOutcome[i]
    IN IF config.downloadDir = ""
         THEN Terminal(FailedResult(photoId, "Download directory not configured"))
       ELSE IF log.found[i] THEN Terminal(SkippedResult(photoId, 0))
       ELSE IF config.dryRun THEN Terminal(SuccessResult(photoId, 0, TRUE))
       ELSE IF met = << >> THEN Terminal(NoResult)
       ELSE LET last == met[1] IN
            IF last.kind = "fail"
              THEN Terminal(FailedResult(photoId,
                                         "Could not find download button on page"))
            ELSE IF last.size = 0
              THEN Terminal(FailedResult(photoId, "Downloaded file is empty"))
            ELSE Terminal(SuccessResult(photoId, last.size, FALSE))

DownloadPhaseOver ==
    /\ pc \in { "reports", "cleanup", "settled" }
    /\ RanSequential \/ RanConcurrent

\* C23: both modes return, for every position, the terminal result that the
\* outcomes of the entry's existence check and download attempts determine,
\* so for the same entries and outcomes they return the same list.
C23_ModesAgree ==
    DownloadPhaseOver =>
        /\ Len(returned) = entryCount
        /\ \A i \in 0 .. (entryCount - 1) :
              Terminal(returned[i + 1]) = EntryResult(i)

\* With a download directory configured the two modes agree.
ModesAgreeWithDirectory ==
    (DownloadPhaseOver /\ config.downloadDir # "") =>
        /\ Len(returned) = entryCount
        /\ \A i \in 0 .. (entryCount - 1) :
              Terminal(returned[i + 1]) = EntryResult(i)

\* C29: when the coordinator has returned its list, in either mode, the
\* statistics counters agree with the results: downloaded, skipped and
\* failed are the counts of the summary of the results, and they add up to
\* the number of entries.
C29_CountersAgree ==
    (DownloadPhaseOver /\ CoordinatorReturned) =>
        LET counted == getDownloadSummary(FilterDefined(results, 0)) IN
        /\ stats.downloaded = counted.successful
        /\ stats.skipped = counted.skipped
        /\ stats.failed = counted.failed
        /\ stats.downloaded + stats.skipped + stats.failed = entryCount

\* With a download directory configured the counters agree with the results.
CountersAgreeWithDirectory ==
    (DownloadPhaseOver /\ CoordinatorReturned /\ config.downloadDir # "") =>
        LET counted == getDownloadSummary(FilterDefined(results, 0)) IN
        /\ stats.downloaded = counted.successful
        /\ stats.skipped = counted.skipped
        /\ stats.failed = counted.failed
        /\ stats.downloaded + stats.skipped + stats.failed = entryCount

\* The skipped counter is exact on every path.
SkippedCounterExact ==
    stats.skipped = getDownloadSummary(FilterDefined(results, 0)).skipped

LoginFailed == auth.calls > 0 /\ auth.returned = << FALSE >>

\* C24: a login attempt that returns false or meets an error does not abort
\* the run: no error of the login reaches run(), the download phase starts
\* after it, and every manifest entry gets a result.
C24_RunsWithoutLogin ==
    /\ thrownBy # "authenticate"
    /\ LoginFailed =>
          \/ pc = "downloads"
          \/ RanSequential \/ RanConcurrent
    /\ (LoginFailed /\ pc = "settled") =>
          \A i \in 0 .. (entryCount - 1) : ResultsOf(i) # {}

\* The login itself never aborts the run, and after a failed login every
\* entry gets a result whenever the coordinator returns.
LoginNeverAborts ==
    /\ thrownBy # "authenticate"
    /\ auth.calls > 0 =>
          \/ pc = "downloads"
          \/ RanSequential \/ RanConcurrent
    /\ (LoginFailed /\ pc = "settled" /\ CoordinatorReturned) =>
          \A i \in 0 .. (entryCount - 1) : ResultsOf(i) # {}

\* C25: isAuthenticated() is false initially and after reset(); it is true
\* only if some attemptLogin call since then saw the session logged in on
\* the page; and a call made while it is true returns true with no page
\* interaction.
C25_AuthenticatedOnlyIfObserved ==
    /\ [](auth.returned = << >> => ~auth.isLoggedIn)
    /\ [](auth.isLoggedIn => auth.observed)
    /\ [][ (auth.isLoggedIn /\ auth'.calls > auth.calls)
              => (auth'.returned = << TRUE >> /\ auth'.pageCalls = 0) ]_vars

\* The flag is false initially and after reset(), it is what the last call
\* returned, and a call made while it is true returns true with no page
\* interaction.
FlagFollowsReturn ==
    /\ [](auth.returned = << >> => ~auth.isLoggedIn)
    /\ [](auth.returned # << >> => auth.returned = << auth.isLoggedIn >>)
    /\ [][ (auth.isLoggedIn /\ auth'.calls > auth.calls)
              => (auth'.returned = << TRUE >> /\ auth'.pageCalls = 0) ]_vars

\* C26: a run that started the browser initialization settles, returned,
\* void or thrown, only after the browser cleanup was called, once; an error
\* of the cleanup is swallowed, so the cleanup step leaves the result or the
\* error of the run as it was.
C26_CleanupAlways ==
    /\ [](pc = "settled" => /\ log.cleanups = 1
                            /\ runResult \in { "returned", "void", "thrown" })
    /\ [](pc # "settled" => log.cleanups = 0)
    /\ [](thrownBy # "cleanup")
    /\ [][ pc = "cleanup" => /\ pc' = "settled"
                             /\ log'.cleanups = 1
                             /\ runResult' = runResult
                             /\ thrownBy' = thrownBy ]_vars

\* the browser cleanup threw after a run that returns its results
C26_Witness ==
    /\ pc = "settled"
    /\ log.cleanupFailed
    /\ runResult = "returned"
    /\ Len(returned) = 2

\* the entry at index i ended the previous run Failed after a transfer that
\* left a zero-byte file
RejectedEmptyBefore(i) ==
    /\ previous.ran
    /\ i < Len(previous.returned)
    /\ ~previous.returned[i + 1].success
    /\ previous.emptySaves[i] > 0

\* C27: no result is a success of size 0, and an entry that ended a run
\* Failed after a zero-byte transfer was rejected is not found by the
\* existence check of the following run.
C27_NoEmptySuccess ==
    \A i \in EntryIndexes :
        /\ (results[i].defined /\ results[i].success) => results[i].size > 0
        /\ RejectedEmptyBefore(i) => ~log.found[i]

\* Within one run, and in a second run after entries without a rejected
\* zero-byte transfer, no success has size 0.
NoEmptySuccessWithoutLeftover ==
    (\A i \in EntryIndexes : previous.emptySaves[i] = 0) =>
        \A i \in EntryIndexes :
            (results[i].defined /\ results[i].success) => results[i].size > 0

\* every entry of the previous run ended with a success
AllSucceededBefore ==
    /\ previous.ran
    /\ Len(previous.returned) = entryCount
    /\ \A n \in 1 .. Len(previous.returned) : previous.returned[n].success

\* C28: a file that saveDownload stored for an entry is found by imageExists
\* for that entry, and a run started after a run in which every entry
\* succeeded skips every entry and makes no download attempt.
C28_SecondRunSkipsAll ==
    /\ \A i \in EntryIndexes :
          (results[i].defined /\ results[i].success /\ ~results[i].skipped)
              => imageExists(disk[results[i].photoId]).exists
    /\ AllSucceededBefore =>
          \A i \in EntryIndexes :
              /\ log.attempts[i] = 0
              /\ results[i].defined => results[i].skipped

\* Where every stored file has an extension that the existence check knows,
\* the second run skips every entry.
SecondRunSkipsKnownExtensions ==
    (\A p \in PhotoIds : disk[p][".gif"] = Absent) =>
        /\ \A i \in EntryIndexes :
              (results[i].defined /\ results[i].success /\ ~results[i].skipped)
                  => imageExists(disk[results[i].photoId]).exists
        /\ AllSucceededBefore =>
              \A i \in EntryIndexes :
                  /\ log.attempts[i] = 0
                  /\ results[i].defined => results[i].skipped

\* C30: with no manifest path given, Config, OptionParser and PathResolver
\* resolve the same path, whatever manifest files exist: the first one in
\* the order working directory, common directories and their nested paths,
\* parent directories up to 3 levels, or else the fallback location.
C30_SameDefaultManifest ==
    paths.called =>
        /\ paths.config = paths.resolver
        /\ paths.parser = paths.resolver

\* OptionParser and PathResolver always agree; Config agrees with them when
\* a manifest is found at or below the working directory, or in no parent
\* directory either.
SameManifestBelowWorkingDir ==
    paths.called =>
        /\ paths.parser = paths.resolver
        /\ ( \/ \E f \in paths.files : f[1] # ".."
             \/ paths.files = {} ) => paths.config = paths.resolver
        /\ paths.config # paths.resolver =>
              /\ paths.resolver \in paths.files /\ paths.resolver[1] = ".."
              /\ paths.config = MostLikelyLocation(paths)

====
